---- MODULE Spec2Model ----
(***************************************************************************)
(* Model of src/app.js: the two Express handlers POST /upload and POST     *)
(* /register, each an async function that runs one chain of awaited remote *)
(* calls.  A behaviour serves one request (requests share no state); an    *)
(* action is the code that runs between two suspension points (await).     *)
(*                                                                         *)
(* Text that the code inspects (file names, phone numbers, websites) is a  *)
(* sequence of one-character strings.  Opaque tokens are TLA+ strings.     *)
(* The outcome of every remote call of a request is part of the request's  *)
(* input (req.env), the way a test double is configured before the call.   *)
(***************************************************************************)
EXTENDS Integers, Sequences, FiniteSets, TLC

VARIABLES
    pc,         \* position of the handler: the await it is suspended at
    req,        \* the request being served, with the remote outcomes
    calls,      \* remote calls issued for this request, in order
    res,        \* the Express response object of this request
    unhandled,  \* the handler's promise was rejected (throw inside catch)
    mimeType,   \* local of /upload (line 138)
    resourceUrl,\* local of /upload (line 178)
    ret         \* what a function called on its own returned

vars == <<pc, req, calls, res, unhandled, mimeType, resourceUrl, ret>>

----------------------------------------------------------------------------
(* JavaScript values *)

Undefined == [t |-> "undefined"]
Null == [t |-> "null"]
Str(s) == [t |-> "string", v |-> s]
Obj(fields) == [t |-> "object", v |-> fields]

\* result of evaluating an expression that may throw
Ret(v) == [threw |-> FALSE, val |-> v]
Threw == [threw |-> TRUE]

----------------------------------------------------------------------------
(* Bounds *)

\* longest parameter list a staged upload target carries
MaxParams == 2

----------------------------------------------------------------------------
(* Text helpers *)

UpperCase == <<"A", "B", "C", "D", "E", "F", "G", "H", "I", "J", "K", "L", "M",
               "N", "O", "P", "Q", "R", "S", "T", "U", "V", "W", "X", "Y", "Z">>
LowerCase == <<"a", "b", "c", "d", "e", "f", "g", "h", "i", "j", "k", "l", "m",
               "n", "o", "p", "q", "r", "s", "t", "u", "v", "w", "x", "y", "z">>

LowerChar(c) ==
    IF \E i \in 1..26 : UpperCase[i] = c
    THEN LowerCase[CHOOSE i \in 1..26 : UpperCase[i] = c]
    ELSE c

\* String.prototype.toLowerCase
ToLowerCase(s) == [i \in 1..Len(s) |-> LowerChar(s[i])]

\* String.prototype.startsWith
StartsWith(s, prefix) ==
    /\ Len(s) >= Len(prefix)
    /\ SubSeq(s, 1, Len(prefix)) = prefix

\* path.extname for a name without directory separators: the text from the
\* last dot on, or the empty string when there is no dot, when the last dot
\* is the first character, or when the name is ".."
ExtName(name) ==
    LET dots == {i \in 1..Len(name) : name[i] = "."}
    IN  IF dots = {} THEN <<>>
        ELSE LET startDot == CHOOSE i \in dots : \A j \in dots : j <= i
             IN  IF startDot = 1 \/ name = <<".", ".">>
                 THEN <<>>
                 ELSE SubSeq(name, startDot, Len(name))

----------------------------------------------------------------------------
(* Utility functions *)

\* getMimeType comparing the extension as written, without toLowerCase
GetMimeType_CaseSensitive(extension) ==
    LET e == extension
    IN  IF e = <<".", "p", "n", "g">> THEN Str("image/png")
        ELSE IF e = <<".", "j", "p", "g">> \/ e = <<".", "j", "p", "e", "g">>
             THEN Str("image/jpeg")
        ELSE IF e = <<".", "p", "d", "f">> THEN Str("application/pdf")
        ELSE Null

\* getMimeType with a default case that names a generic type instead of null
GetMimeType_GenericDefault(extension) ==
    LET e == ToLowerCase(extension)
    IN  IF e = <<".", "p", "n", "g">> THEN Str("image/png")
        ELSE IF e = <<".", "j", "p", "g">> \/ e = <<".", "j", "p", "e", "g">>
             THEN Str("image/jpeg")
        ELSE IF e = <<".", "p", "d", "f">> THEN Str("application/pdf")
        ELSE Str("application/octet-stream")

\* getMimeType: the MIME type for a file extension, null when unknown
GetMimeType(extension) ==
    LET e == ToLowerCase(extension)
    IN  IF e = <<".", "p", "n", "g">> THEN Str("image/png")
        ELSE IF e = <<".", "j", "p", "g">> \/ e = <<".", "j", "p", "e", "g">>
             THEN Str("image/jpeg")
        ELSE IF e = <<".", "p", "d", "f">> THEN Str("application/pdf")
        ELSE Null

----------------------------------------------------------------------------
(* The Express response object *)

NewRes == [cookie |-> FALSE, committed |-> "none", attempts |-> 0]

\* res.cookie('uploadMessage', ...)
ResCookie(r) == [r EXCEPT !.cookie = TRUE]

\* res.send / res.status(500).send / res.redirect: commits the response, or
\* throws ERR_HTTP_HEADERS_SENT when one was committed before
ResSend(r, kind) ==
    [ok  |-> r.committed = "none",
     res |-> [r EXCEPT !.committed = IF @ = "none" THEN kind ELSE @,
                       !.attempts = @ + 1]]

----------------------------------------------------------------------------
(* Results of awaited remote calls *)

\* the promise of a remote call: rejected, or resolved with the response data
Rejected == [rejected |-> TRUE]
Resolved(d) == [rejected |-> FALSE, data |-> d]

\* JavaScript truthiness of the values the handlers test
Truthy(v) ==
    /\ v.t \notin {"undefined", "null"}
    /\ (v.t = "string" => Len(v.v) > 0)

----------------------------------------------------------------------------
(* Inputs of POST /upload *)

FileNames ==
    { <<"a", ".", "p", "d", "f">>,
      <<"a", ".", "P", "D", "F">>,
      <<"a", ".", "p", "n", "g">>,
      <<"a", ".", "j", "p", "g">>,
      <<"a", ".", "J", "p", "e", "g">>,
      <<"a", ".", "g", "i", "f">>,
      <<"a", ".", "p", "d", "f", ".", "s", "h">>,
      <<".", "p", "d", "f">>,
      <<"p", "d", "f">>,
      <<"a", ".">> }

\* req.file as multer leaves it: undefined when no file part was sent
Files == {Undefined} \cup {[originalname |-> n, buffer |-> "bytes"] : n \in FileNames}

UploadBodies == {[customerId |-> "7", customerCompany |-> "Acme"]}

Params == {[name |-> "key", value |-> "k"], [name |-> "policy", value |-> "p"]}
ParamLists == UNION {[1..n -> Params] : n \in 0..MaxParams}

StagedTargets ==
    {[parameters |-> p, url |-> "postUrl", resourceUrl |-> "resourceUrl"] : p \in ParamLists}

\* what each remote call of an upload request will answer
UploadEnvs ==
    [stagedUploadsCreate : {Rejected, Resolved(<<>>)} \cup {Resolved(<<t>>) : t \in StagedTargets},
     transfer            : {Rejected, Resolved("ok")},
     fileCreate          : {Rejected, Resolved(<<>>), Resolved(<<[id |-> Undefined]>>),
                            Resolved(<<[id |-> Str("fileId")]>>)},
     metafieldsSet       : {Rejected, Resolved("ok")},
     sendMail            : {Rejected, Resolved("ok")}]

----------------------------------------------------------------------------
(* POST /upload *)

\* form.append(name, value)
FormAppend(form, name, value) == Append(form, [name |-> name, value |-> value])

\* params.forEach(({ name, value }) => form.append(name, value))
RECURSIVE ParamsForEach(_, _)
ParamsForEach(form, params) ==
    IF params = <<>> THEN form
    ELSE ParamsForEach(FormAppend(form, Head(params).name, Head(params).value),
                       Tail(params))

\* the form with the file appended before the parameters
BuildForm_FileFirst(params, buffer) ==
    ParamsForEach(FormAppend(<<>>, "file", buffer), params)

\* the multipart form of the transfer: the parameters, then the file
BuildForm(params, buffer) == FormAppend(ParamsForEach(<<>>, params), "file", buffer)

\* contentType of the file-create variables
ContentType(mime) == IF mime = Str("application/pdf") THEN "FILE" ELSE "IMAGE"

\* a catch clause that logs the error and returns without answering
UploadCatch_LogOnly(r) ==
    /\ res' = r
    /\ unhandled' = FALSE
    /\ pc' = "done"

\* the catch clause of the handler: answer 500; when a response was already
\* committed the send throws inside the catch and the handler's promise rejects
UploadCatch(r) ==
    LET s == ResSend(r, "500")
    IN  /\ res' = s.res
        /\ unhandled' = ~s.ok
        /\ pc' = "done"

\* the value the metafield-set await yields: the axios response, or what the
\* .catch callback returns, which is what res.status(500).send() returns (res)
SetMetafieldQueryResult(m) == IF m.rejected THEN Obj("res") ELSE Obj("response")

\* the handler up to the first await: cookie, validation, the staging call
UploadRequest ==
    /\ pc = "idle"
    /\ UNCHANGED ret
    /\ \E file \in Files, body \in UploadBodies, env \in UploadEnvs :
         LET r == ResCookie(NewRes)
         IN  /\ req' = [kind |-> "upload", file |-> file, body |-> body, env |-> env]
             /\ resourceUrl' = Undefined
             /\ IF file = Undefined
                THEN /\ UploadCatch(r)
                     /\ calls' = <<>>
                     /\ mimeType' = Undefined
                ELSE LET fileExtension == ExtName(file.originalname)
                         mime == GetMimeType(fileExtension)
                     IN  /\ mimeType' = mime
                         /\ IF ~Truthy(mime)
                            THEN /\ res' = ResSend(r, "alert").res
                                 /\ unhandled' = FALSE
                                 /\ pc' = "done"
                                 /\ calls' = <<>>
                            ELSE /\ res' = r
                                 /\ unhandled' = FALSE
                                 /\ pc' = "stagedUploadsCreate"
                                 /\ calls' = <<[op |-> "stagedUploadsCreate",
                                                company |-> body.customerCompany,
                                                fileExtension |-> fileExtension,
                                                mimeType |-> mime]>>

\* the staging call settles: take the first target, build the form, transfer
UploadStaged ==
    /\ pc = "stagedUploadsCreate"
    /\ UNCHANGED ret
    /\ LET result == req.env.stagedUploadsCreate
       IN  IF result.rejected \/ result.data = <<>>
           THEN /\ UploadCatch(res)
                /\ UNCHANGED <<req, calls, mimeType, resourceUrl>>
           ELSE LET target == result.data[1]
                    form == BuildForm(target.parameters, req.file.buffer)
                IN  /\ resourceUrl' = target.resourceUrl
                    /\ calls' = Append(calls, [op |-> "transfer", url |-> target.url,
                                               form |-> form])
                    /\ pc' = "transfer"
                    /\ UNCHANGED <<req, res, unhandled, mimeType>>

\* the transfer with one retry: a first rejection posts the form again
UploadTransferred_RetryOnce ==
    /\ pc = "transfer"
    /\ UNCHANGED ret
    /\ IF req.env.transfer.rejected /\ calls[Len(calls)].op = "transfer"
          /\ Len(calls) = 2
       THEN /\ calls' = Append(calls, calls[Len(calls)])
            /\ UNCHANGED <<pc, req, res, unhandled, mimeType, resourceUrl>>
       ELSE LET s == IF req.env.transfer.rejected
                     THEN ResSend(res, "500")
                     ELSE [ok |-> TRUE, res |-> res]
            IN  IF ~s.ok
                THEN /\ UploadCatch(s.res)
                     /\ UNCHANGED <<req, calls, mimeType, resourceUrl>>
                ELSE /\ res' = s.res
                     /\ calls' = Append(calls, [op |-> "fileCreate",
                                                contentType |-> ContentType(mimeType),
                                                originalSource |-> resourceUrl])
                     /\ pc' = "fileCreate"
                     /\ UNCHANGED <<req, unhandled, mimeType, resourceUrl>>

\* the transfer settles; a rejection runs the .catch callback, which answers
\* 500 and returns, and the handler goes on to create the file
UploadTransferred ==
    /\ pc = "transfer"
    /\ UNCHANGED ret
    /\ LET s == IF req.env.transfer.rejected
                THEN ResSend(res, "500")
                ELSE [ok |-> TRUE, res |-> res]
       IN  IF ~s.ok
           THEN /\ UploadCatch(s.res)
                /\ UNCHANGED <<req, calls, mimeType, resourceUrl>>
           ELSE /\ res' = s.res
                /\ calls' = Append(calls, [op |-> "fileCreate",
                                           contentType |-> ContentType(mimeType),
                                           originalSource |-> resourceUrl])
                /\ pc' = "fileCreate"
                /\ UNCHANGED <<req, unhandled, mimeType, resourceUrl>>

\* the file-create call settles: read files[0].id, set the metafield
UploadFileCreated ==
    /\ pc = "fileCreate"
    /\ UNCHANGED ret
    /\ LET result == req.env.fileCreate
       IN  IF result.rejected \/ result.data = <<>>
           THEN /\ UploadCatch(res)
                /\ UNCHANGED <<req, calls, mimeType, resourceUrl>>
           ELSE /\ calls' = Append(calls, [op |-> "metafieldsSet",
                                           ownerId |-> req.body.customerId,
                                           value |-> result.data[1].id])
                /\ pc' = "metafieldsSet"
                /\ UNCHANGED <<req, res, unhandled, mimeType, resourceUrl>>

\* the metafield-set call settles; a rejection runs the .catch callback, and
\* the mail is sent when the awaited value is truthy
UploadMetafieldSet ==
    /\ pc = "metafieldsSet"
    /\ UNCHANGED ret
    /\ LET m == req.env.metafieldsSet
           s == IF m.rejected THEN ResSend(res, "500") ELSE [ok |-> TRUE, res |-> res]
       IN  IF ~s.ok
           THEN /\ UploadCatch(s.res)
                /\ UNCHANGED <<req, calls, mimeType, resourceUrl>>
           ELSE IF Truthy(SetMetafieldQueryResult(m))
           THEN /\ res' = s.res
                /\ calls' = Append(calls, [op |-> "sendMail",
                                           mail |-> "taxExemptDocumentUploadEmail"])
                /\ pc' = "sendMail"
                /\ UNCHANGED <<req, unhandled, mimeType, resourceUrl>>
           ELSE LET e == ResSend(s.res, "500")
                IN  /\ IF e.ok
                       THEN res' = e.res /\ unhandled' = FALSE /\ pc' = "done"
                       ELSE UploadCatch(e.res)
                    /\ UNCHANGED <<req, calls, mimeType, resourceUrl>>

\* the mail send settles: redirect, or the catch clause
UploadMailSent ==
    /\ pc = "sendMail"
    /\ UNCHANGED ret
    /\ IF req.env.sendMail.rejected
       THEN UploadCatch(res)
       ELSE LET s == ResSend(res, "redirect")
            IN  IF s.ok
                THEN res' = s.res /\ unhandled' = FALSE /\ pc' = "done"
                ELSE UploadCatch(s.res)
    /\ UNCHANGED <<req, calls, mimeType, resourceUrl>>

----------------------------------------------------------------------------
(* Inputs of POST /register *)

Digits == {"0", "1", "2", "3", "4", "5", "6", "7", "8", "9"}

Phone10 == <<"5", "5", "5", "1", "2", "3", "4", "5", "6", "7">>

PhoneNumbers ==
    { Phone10,
      <<"5", "5", "5", "-", "1", "2", "3", "-", "4", "5", "6", "7">>,
      <<"1">> \o Phone10,
      <<"2">> \o Phone10,
      <<"1", "2", "3">> }

HttpPrefix == <<"h", "t", "t", "p", ":", "/", "/">>
HttpsPrefix == <<"h", "t", "t", "p", "s", ":", "/", "/">>
FtpPrefix == <<"f", "t", "p", ":", "/", "/">>

AcmeCom == <<"a", "c", "m", "e", ".", "c", "o", "m">>

Websites ==
    { AcmeCom,
      HttpPrefix \o AcmeCom,
      HttpsPrefix \o AcmeCom,
      FtpPrefix \o AcmeCom,
      <<"a", " ", "b">>,
      HttpsPrefix \o <<"a", "\"", "b">>,
      HttpPrefix,
      <<>> }

\* req.body as the body parsers leave it: a field that was not sent is undefined
RegisterBodies ==
    [companyName    : {Str(<<"A", "c", "m", "e">>)},
     firstName      : {Str(<<"A">>)},
     lastName       : {Str(<<"B">>)},
     email          : {Str(<<"a", "@", "b", ".", "c", "o", "m">>)},
     companyWebsite : {Undefined} \cup {Str(w) : w \in Websites},
     phoneNumber    : {Undefined} \cup {Str(n) : n \in PhoneNumbers}]

\* what each remote call of a registration request will answer
RegisterEnvs ==
    [customerCreate  : {Rejected, Resolved([customer |-> Null]),
                        Resolved([customer |-> [id |-> Str("customerId")]])},
     activationUrl   : {Rejected, Resolved("activationUrl")},
     activationEmail : {Rejected, Resolved("ok")},
     newCustomerEmail: {Rejected, Resolved("ok")}]

----------------------------------------------------------------------------
(* POST /register *)

\* urlRegex with . in place of the character class [^ "]
UrlRegexTest_AnyCharacter(s) ==
    \E prefix \in {FtpPrefix, HttpPrefix, HttpsPrefix} :
        /\ StartsWith(s, prefix)
        /\ Len(s) > Len(prefix)

\* urlRegex.test: /^(ftp|http|https):\/\/[^ "]+$/
UrlRegexTest(s) ==
    \E prefix \in {FtpPrefix, HttpPrefix, HttpsPrefix} :
        /\ StartsWith(s, prefix)
        /\ Len(s) > Len(prefix)
        /\ \A i \in (Len(prefix) + 1)..Len(s) : s[i] \notin {" ", "\""}

\* lines 360-363: prepend http:// unless the value starts with http:// or
\* https://; calling startsWith on a value that is not a string throws
NormalizeWebsite(companyWebsite) ==
    IF companyWebsite.t # "string" THEN Threw
    ELSE IF ~StartsWith(companyWebsite.v, HttpPrefix) /\ ~StartsWith(companyWebsite.v, HttpsPrefix)
         THEN Ret(Str(HttpPrefix \o companyWebsite.v))
         ELSE Ret(companyWebsite)

IsDigit(c) == c \in Digits

\* convertToE164 without the test for the leading 1 of an 11-digit number
ConvertToE164_AnyElevenDigits(phoneNumber) ==
    IF phoneNumber.t # "string" THEN Threw
    ELSE LET digitsOnly == SelectSeq(phoneNumber.v, IsDigit)
         IN  IF Len(digitsOnly) = 11
             THEN Ret(Str(<<"+">> \o digitsOnly))
             ELSE IF Len(digitsOnly) = 10
             THEN Ret(Str(<<"+", "1">> \o digitsOnly))
             ELSE Ret(Null)

\* convertToE164(phoneNumber): phoneNumber.replace throws when the argument
\* has no replace method, that is when it is not a string
ConvertToE164(phoneNumber) ==
    IF phoneNumber.t # "string" THEN Threw
    ELSE LET digitsOnly == SelectSeq(phoneNumber.v, IsDigit)
         IN  IF Len(digitsOnly) = 11 /\ Head(digitsOnly) = "1"
             THEN Ret(Str(<<"+">> \o digitsOnly))
             ELSE IF Len(digitsOnly) = 10
             THEN Ret(Str(<<"+", "1">> \o digitsOnly))
             ELSE Ret(Null)

\* the argument of the call on line 384: the object literal { phoneNumber }
ConvertToE164Argument(phoneNumber) == Obj([phoneNumber |-> phoneNumber])

\* the metafields of the customer-create variables: company and phone_number,
\* and company_website when the website is truthy and passes urlRegex
CustomerMetafields(companyName, phone, website) ==
    <<[key |-> "company", value |-> companyName],
      [key |-> "phone_number", value |-> phone]>>
    \o IF Truthy(website) /\ UrlRegexTest(website.v)
       THEN <<[key |-> "company_website", value |-> website]>>
       ELSE <<>>

CreateCustomerVariables(body, phone, website) ==
    [email |-> body.email, phone |-> phone,
     firstName |-> body.firstName, lastName |-> body.lastName,
     metafields |-> CustomerMetafields(body.companyName, phone, website)]

\* the catch clause of the handler
RegisterCatch(r) ==
    LET s == ResSend(r, "500")
    IN  /\ res' = s.res
        /\ unhandled' = ~s.ok
        /\ pc' = "done"

\* the handler up to the first await: normalization, the customer-create call
RegisterRequest ==
    /\ pc = "idle"
    /\ UNCHANGED ret
    /\ \E body \in RegisterBodies, env \in RegisterEnvs :
         LET website == NormalizeWebsite(body.companyWebsite)
             phone == IF website.threw THEN Threw
                      ELSE ConvertToE164(ConvertToE164Argument(body.phoneNumber))
         IN  /\ req' = [kind |-> "register", body |-> body, env |-> env]
             /\ mimeType' = Undefined
             /\ resourceUrl' = Undefined
             /\ IF website.threw \/ phone.threw
                THEN /\ RegisterCatch(NewRes)
                     /\ calls' = <<>>
                ELSE /\ res' = NewRes
                     /\ unhandled' = FALSE
                     /\ pc' = "customerCreate"
                     /\ calls' = <<[op |-> "customerCreate",
                                    variables |-> CreateCustomerVariables(
                                                      body, phone.val, website.val)]>>

\* lines 579-580: redirect to the success page
RegisterRedirect(r) ==
    LET s == ResSend(r, "redirect")
    IN  IF s.ok
        THEN res' = s.res /\ unhandled' = FALSE /\ pc' = "done"
        ELSE RegisterCatch(s.res)

(* The rest of the handler, lines 481-580, one step per await.  Every      *)
(* request leaves RegisterRequest through the catch clause, because the    *)
(* call on line 384 hands convertToE164 an object, so no behaviour enables *)
(* these steps (RegisterTailUnreachable below) and Next does not list them.*)

\* the customer-create call settles: with a customer id, ask for the
\* activation URL; without one, log the user errors and redirect
RegisterCustomerCreated ==
    /\ pc = "customerCreate"
    /\ UNCHANGED ret
    /\ LET result == req.env.customerCreate
       IN  IF result.rejected
           THEN RegisterCatch(res) /\ UNCHANGED calls
           ELSE LET customer == result.data.customer
                    customerId == IF customer # Null THEN customer.id ELSE Null
                IN  IF Truthy(customerId)
                    THEN /\ calls' = Append(calls, [op |-> "activationUrl",
                                                    customerId |-> customerId])
                         /\ pc' = "activationUrl"
                         /\ UNCHANGED <<res, unhandled>>
                    ELSE RegisterRedirect(res) /\ UNCHANGED calls
    /\ UNCHANGED <<req, mimeType, resourceUrl>>

\* the activation-URL call settles: send the activation email
RegisterActivationUrlGenerated ==
    /\ pc = "activationUrl"
    /\ UNCHANGED ret
    /\ IF req.env.activationUrl.rejected
       THEN RegisterCatch(res) /\ UNCHANGED calls
       ELSE /\ calls' = Append(calls, [op |-> "activationEmail", to |-> req.body.email])
            /\ pc' = "activationEmail"
            /\ UNCHANGED <<res, unhandled>>
    /\ UNCHANGED <<req, mimeType, resourceUrl>>

\* the activation email settles: on success send the staff email, on failure
\* the inner catch logs and the handler redirects
RegisterActivationEmailSent ==
    /\ pc = "activationEmail"
    /\ UNCHANGED ret
    /\ IF req.env.activationEmail.rejected
       THEN RegisterRedirect(res) /\ UNCHANGED calls
       ELSE /\ calls' = Append(calls, [op |-> "newCustomerEmail", to |-> Str(<<"s", "t", "a", "f", "f">>)])
            /\ pc' = "newCustomerEmail"
            /\ UNCHANGED <<res, unhandled>>
    /\ UNCHANGED <<req, mimeType, resourceUrl>>

\* the staff email settles: a failure is logged by the inner catch; redirect
RegisterNewCustomerEmailSent ==
    /\ pc = "newCustomerEmail"
    /\ UNCHANGED ret
    /\ RegisterRedirect(res)
    /\ UNCHANGED <<req, calls, mimeType, resourceUrl>>

----------------------------------------------------------------------------
(* The server *)

Init ==
    /\ pc = "idle"
    /\ req = [kind |-> "none"]
    /\ calls = <<>>
    /\ res = NewRes
    /\ unhandled = FALSE
    /\ mimeType = Undefined
    /\ resourceUrl = Undefined
    /\ ret = Undefined

Next ==
    \/ UploadRequest
    \/ UploadStaged
    \/ UploadTransferred
    \/ UploadFileCreated
    \/ UploadMetafieldSet
    \/ UploadMailSent
    \/ RegisterRequest

Spec == Init /\ [][Next]_vars

\* an awaited remote call settles (returns or fails) and the handler resumes
RemoteCallSettles ==
    \/ UploadStaged
    \/ UploadTransferred
    \/ UploadFileCreated
    \/ UploadMetafieldSet
    \/ UploadMailSent

\* the server when every remote call eventually returns or fails: a handler
\* suspended at an await is eventually resumed.  Requests carry no fairness,
\* since nothing obliges a client to send one.
SpecLive == Spec /\ WF_vars(RemoteCallSettles)

----------------------------------------------------------------------------
(* The utility functions called on their own: the argument is drawn when   *)
(* the call is set up, and one action per function applies it.             *)

\* longest extension drawn over ExtensionChars
MaxExtLen == 4

ExtensionChars == {".", "p", "d", "f", "P", "g"}

Extensions ==
    UNION {[1..n -> ExtensionChars] : n \in 0..MaxExtLen}
    \cup { <<".", "P", "D", "F">>,
           <<".", "p", "n", "g">>, <<".", "P", "N", "G">>,
           <<".", "j", "p", "g">>, <<".", "J", "p", "G">>,
           <<".", "j", "p", "e", "g">>, <<".", "J", "P", "E", "G">>,
           <<".", "g", "i", "f">>, <<".", "p", "d", "f", "x">>,
           <<".", "j", "p", "e">>, <<"j", "p", "e", "g">> }

RawPhoneNumbers ==
    PhoneNumbers
    \cup { <<>>,
           <<"a", "b", "c">>,
           <<"+", "1", " ", "(", "5", "5", "5", ")", " ", "1", "2", "3", "-",
             "4", "5", "6", "7">>,
           <<"(", "5", "5", "5", ")", " ", "1", "2", "3", ".", "4", "5", "6", "7">>,
           <<"5", "5", "5", "1", "2", "3", "4", "5", "6">>,
           <<"1">> \o Phone10 \o <<"8">>,
           <<"0">> \o Phone10 }

RawWebsites ==
    Websites
    \cup { <<"e", "x", "a", "m", "p", "l", "e", ".", "c", "o", "m">>,
           HttpsPrefix \o <<"e", "x", "a", "m", "p", "l", "e", ".", "c", "o", "m">>,
           HttpsPrefix,
           HttpPrefix \o <<"a", " ", "b">>,
           <<" ">> \o HttpPrefix \o AcmeCom,
           <<"H", "T", "T", "P", ":", "/", "/">> \o AcmeCom,
           <<"h", "t", "t", "p", ":", "/">> \o AcmeCom,
           <<"g", "o", "p", "h", "e", "r", ":", "/", "/">> \o AcmeCom,
           <<"x">> \o HttpPrefix \o AcmeCom }

\* the strings urlRegex is tested on: raw values and normalized ones
UrlCandidates ==
    RawWebsites
    \cup {HttpPrefix \o w : w \in RawWebsites}
    \cup {FtpPrefix, FtpPrefix \o <<"a", "\"">>}

UtilCalls ==
    {[kind |-> "getMimeType", arg |-> e] : e \in Extensions}
    \cup {[kind |-> "convertToE164", arg |-> n] : n \in RawPhoneNumbers}
    \cup {[kind |-> "normalizeWebsite", arg |-> w] : w \in RawWebsites}
    \cup {[kind |-> "urlRegexTest", arg |-> w] : w \in UrlCandidates}

InitUtil ==
    /\ pc = "call"
    /\ req \in UtilCalls
    /\ calls = <<>>
    /\ res = NewRes
    /\ unhandled = FALSE
    /\ mimeType = Undefined
    /\ resourceUrl = Undefined
    /\ ret = Undefined

\* getMimeType(extension)
CallGetMimeType ==
    /\ pc = "call"
    /\ req.kind = "getMimeType"
    /\ ret' = GetMimeType(req.arg)
    /\ pc' = "returned"
    /\ UNCHANGED <<req, calls, res, unhandled, mimeType, resourceUrl>>

\* convertToE164(phoneNumber) with the phone number string as argument
CallConvertToE164 ==
    /\ pc = "call"
    /\ req.kind = "convertToE164"
    /\ ret' = ConvertToE164(Str(req.arg))
    /\ pc' = "returned"
    /\ UNCHANGED <<req, calls, res, unhandled, mimeType, resourceUrl>>

\* the website normalization of lines 360-363 on a string
CallNormalizeWebsite ==
    /\ pc = "call"
    /\ req.kind = "normalizeWebsite"
    /\ ret' = NormalizeWebsite(Str(req.arg))
    /\ pc' = "returned"
    /\ UNCHANGED <<req, calls, res, unhandled, mimeType, resourceUrl>>

\* urlRegex.test(website)
CallUrlRegexTest ==
    /\ pc = "call"
    /\ req.kind = "urlRegexTest"
    /\ ret' = UrlRegexTest(req.arg)
    /\ pc' = "returned"
    /\ UNCHANGED <<req, calls, res, unhandled, mimeType, resourceUrl>>

NextUtil ==
    \/ CallGetMimeType
    \/ CallConvertToE164
    \/ CallNormalizeWebsite
    \/ CallUrlRegexTest

SpecUtil == InitUtil /\ [][NextUtil]_vars

----------------------------------------------------------------------------
(* Vocabulary of the properties *)

IsUpload == req.kind = "upload"
IsRegister == req.kind = "register"

\* a remote call of this kind was issued for the request
Issued(op) == \E i \in 1..Len(calls) : calls[i].op = op

\* the awaited call of this kind was issued and has settled
Settled(op) == Issued(op) /\ pc # op

\* the upload reached the notification with every earlier step successful
UploadStepsSucceeded ==
    /\ IsUpload
    /\ Issued("sendMail")
    /\ ~req.env.transfer.rejected
    /\ Truthy(req.env.fileCreate.data[1].id)
    /\ ~req.env.metafieldsSet.rejected

AllowedExtensions ==
    { <<".", "p", "n", "g">>, <<".", "j", "p", "g">>,
      <<".", "j", "p", "e", "g">>, <<".", "p", "d", "f">> }

\* the upload carries a file whose extension is outside the allow-list
InvalidFileType ==
    /\ IsUpload
    /\ req.file # Undefined
    /\ ToLowerCase(ExtName(req.file.originalname)) \notin AllowedExtensions

\* no registration request gets past its first step
RegisterTailUnreachable ==
    pc \notin {"customerCreate", "activationUrl", "activationEmail", "newCustomerEmail"}

----------------------------------------------------------------------------
(* Properties of POST /upload *)

\* C1: when the transfer to the staged target fails, no file-create and no
\* metafield-set call is issued afterwards, and the response is a 500.
C1_TransferFailureHalts ==
    (IsUpload /\ Settled("transfer") /\ req.env.transfer.rejected)
        => /\ ~Issued("fileCreate")
           /\ ~Issued("metafieldsSet")
           /\ (pc = "done" => res.committed = "500")

\* C2: when the metafield-set call fails, the response is a 500, the staff
\* notification email is never sent and no success redirect is answered.
C2_MetafieldFailureFatal ==
    (IsUpload /\ Settled("metafieldsSet") /\ req.env.metafieldsSet.rejected)
        => /\ ~Issued("sendMail")
           /\ (pc = "done" => res.committed = "500")

\* C3: once staging, transfer, file creation and metafield linking
\* succeeded, a failed notification send still answers the success redirect.
C3_NotifyFailureStillRedirects ==
    (UploadStepsSucceeded /\ pc = "done" /\ req.env.sendMail.rejected)
        => res.committed = "redirect"

\* C7: an upload whose file extension is outside the allow-list is rejected
\* before any remote call, and is answered with the alert page.
C7_InvalidTypeRejected ==
    InvalidFileType
        => /\ calls = <<>>
           /\ pc = "done"
           /\ res.committed = "alert"

C7_Witness ==
    /\ InvalidFileType
    /\ req.file.originalname = <<"a", ".", "g", "i", "f">>
    /\ res.committed = "alert"

\* C10: the form of the transfer holds the staged target's parameters in the
\* order of the staging response, each once, and then the file as last field.
C10_FormOrder ==
    \A i \in 1..Len(calls) :
        calls[i].op = "transfer" =>
            LET params == req.env.stagedUploadsCreate.data[1].parameters
                form == calls[i].form
            IN  /\ Len(form) = Len(params) + 1
                /\ \A j \in 1..Len(params) :
                       form[j] = [name |-> params[j].name, value |-> params[j].value]
                /\ form[Len(form)] = [name |-> "file", value |-> req.file.buffer]

C10_Witness ==
    /\ Issued("transfer")
    /\ LET params == req.env.stagedUploadsCreate.data[1].parameters
       IN  Len(params) >= 2 /\ params[1] # params[2]

----------------------------------------------------------------------------
(* Properties of POST /register *)

\* C4: every registration request ends with the redirect to the success
\* destination, whatever the outcome of the remote calls.
C4_RegisterAlwaysRedirects ==
    (IsRegister /\ pc = "done") => res.committed = "redirect"

\* C5: when customer creation returns no customer id, no activation-URL call
\* is made, no email is sent, and the response is still the redirect.
C5_NoCustomerIdStillRedirects ==
    (/\ IsRegister
     /\ pc = "done"
     /\ ~req.env.customerCreate.rejected
     /\ req.env.customerCreate.data.customer = Null)
        => /\ ~Issued("activationUrl")
           /\ ~Issued("activationEmail")
           /\ ~Issued("newCustomerEmail")
           /\ res.committed = "redirect"

\* C6: the staff email is sent only after the activation email was sent
\* successfully, and whether or not a send fails the response is the redirect.
C6_EmailFailuresStillRedirect ==
    (/\ IsRegister
     /\ pc = "done"
     /\ ~req.env.customerCreate.rejected
     /\ req.env.customerCreate.data.customer # Null
     /\ ~req.env.activationUrl.rejected)
        => /\ Issued("newCustomerEmail")
                => Issued("activationEmail") /\ ~req.env.activationEmail.rejected
           /\ res.committed = "redirect"

\* C8: a request with website acme.com and phone 5551234567 issues a
\* customer-create call with phone +15551234567 and a company_website
\* metafield http://acme.com; every request with a 10-digit phone issues the
\* customer-create call with the E.164 phone.
C8_CustomerCreateCarriesE164 ==
    (/\ IsRegister
     /\ req.body.phoneNumber.t = "string"
     /\ Len(req.body.phoneNumber.v) = 10
     /\ \A i \in 1..10 : req.body.phoneNumber.v[i] \in Digits)
        => \E i \in 1..Len(calls) :
               /\ calls[i].op = "customerCreate"
               /\ calls[i].variables.phone = Str(<<"+", "1">> \o req.body.phoneNumber.v)
               /\ req.body.companyWebsite = Str(AcmeCom)
                      => \E j \in 1..Len(calls[i].variables.metafields) :
                             /\ calls[i].variables.metafields[j].key = "company_website"
                             /\ calls[i].variables.metafields[j].value =
                                    Str(HttpPrefix \o AcmeCom)

\* C9: an absent website, or one that fails validation after normalization,
\* does not fail the request: the customer-create call is issued with the
\* company and phone_number metafields and without company_website.
C9_BadWebsiteOmitted ==
    (/\ IsRegister
     /\ \/ req.body.companyWebsite = Undefined
        \/ ~UrlRegexTest(NormalizeWebsite(req.body.companyWebsite).val.v))
        => \E i \in 1..Len(calls) :
               /\ calls[i].op = "customerCreate"
               /\ Len(calls[i].variables.metafields) = 2
               /\ calls[i].variables.metafields[1].key = "company"
               /\ calls[i].variables.metafields[2].key = "phone_number"

----------------------------------------------------------------------------
(* Properties of the order and number of remote calls *)

\* the order of the remote calls of an upload
UploadOps == <<"stagedUploadsCreate", "transfer", "fileCreate", "metafieldsSet", "sendMail">>

\* the staging answer carries no staged target
NoStagedTarget ==
    \/ req.env.stagedUploadsCreate.rejected
    \/ req.env.stagedUploadsCreate.data = <<>>

\* the file-create answer carries no file id
NoFileId ==
    \/ req.env.fileCreate.rejected
    \/ req.env.fileCreate.data = <<>>
    \/ ~Truthy(req.env.fileCreate.data[1].id)

\* the remote call of this kind was answered without a transport error and
\* with the entry the handler reads from it
StepSucceeded(op) ==
    CASE op = "stagedUploadsCreate" -> ~NoStagedTarget
      [] op = "fileCreate" -> ~req.env.fileCreate.rejected /\ req.env.fileCreate.data # <<>>
      [] OTHER -> ~req.env[op].rejected

\* C11: when the staging call or the file-create call fails (transport error,
\* or an answer without a staged target / file id), no later remote call is
\* issued, no notification email is sent, and the response is a 500.
C11_StagingOrFileCreateFailureHalts ==
    /\ (IsUpload /\ Settled("stagedUploadsCreate") /\ NoStagedTarget)
           => /\ Len(calls) = 1
              /\ pc = "done"
              /\ res.committed = "500"
    /\ (IsUpload /\ Settled("fileCreate") /\ ~req.env.transfer.rejected /\ NoFileId)
           => /\ ~Issued("metafieldsSet")
              /\ ~Issued("sendMail")
              /\ pc = "done"
              /\ res.committed = "500"

\* C12: the remote calls of an upload are a prefix of staging, transfer,
\* file-create, metafield-set, notification; each is started only after the
\* one before it succeeded; the redirect is answered only after all succeeded.
C12_UploadStepsInOrder ==
    IsUpload
        => /\ Len(calls) <= Len(UploadOps)
           /\ \A i \in 1..Len(calls) : calls[i].op = UploadOps[i]
           /\ \A i \in 2..Len(calls) : StepSucceeded(UploadOps[i - 1])
           /\ res.committed = "redirect"
                  => /\ Len(calls) = Len(UploadOps)
                     /\ \A i \in 1..Len(UploadOps) : StepSucceeded(UploadOps[i])

\* the registration carries both normalized fields as strings and every
\* remote call of it is answered successfully
RegisterAllSucceeds ==
    /\ IsRegister
    /\ req.body.companyWebsite.t = "string"
    /\ req.body.phoneNumber.t = "string"
    /\ ~req.env.customerCreate.rejected
    /\ req.env.customerCreate.data.customer # Null
    /\ ~req.env.activationUrl.rejected
    /\ ~req.env.activationEmail.rejected
    /\ ~req.env.newCustomerEmail.rejected

\* C13: the activation-URL call is issued only after customer creation
\* returned a customer id, and for that id; no email is sent unless the
\* activation-URL call succeeded; the calls of a registration run in the order
\* customer-create, activation-URL, activation email, staff email.
C13_RegisterChainInOrder ==
    IsRegister
        => /\ \A i \in 1..Len(calls) :
                  calls[i].op = "activationUrl"
                      => /\ \E j \in 1..(i - 1) : calls[j].op = "customerCreate"
                         /\ ~req.env.customerCreate.rejected
                         /\ req.env.customerCreate.data.customer # Null
                         /\ calls[i].customerId = req.env.customerCreate.data.customer.id
           /\ \A i \in 1..Len(calls) :
                  calls[i].op \in {"activationEmail", "newCustomerEmail"}
                      => /\ \E j \in 1..(i - 1) : calls[j].op = "activationUrl"
                         /\ ~req.env.activationUrl.rejected
           /\ (pc = "done" /\ RegisterAllSucceeds)
                  => /\ Len(calls) = 4
                     /\ calls[1].op = "customerCreate"
                     /\ calls[2].op = "activationUrl"
                     /\ calls[3].op = "activationEmail"
                     /\ calls[4].op = "newCustomerEmail"

\* C14: no remote operation is retried: each kind of remote call is issued at
\* most once for a request, whatever its outcome, so a staged upload target
\* is used for at most one transfer.
C14_NoRetry ==
    \A i, j \in 1..Len(calls) : i # j => calls[i].op # calls[j].op

C14_Witness ==
    /\ IsUpload
    /\ pc = "done"
    /\ Len(calls) = Len(UploadOps)
    /\ req.env.transfer.rejected
    /\ req.env.sendMail.rejected

----------------------------------------------------------------------------
(* Properties of the response *)

\* C19: on every path of /upload and /register exactly one response is
\* committed, and the handler never attempts to send a second one.
C19_SingleResponse ==
    pc = "done"
        => /\ res.committed # "none"
           /\ res.attempts = 1
           /\ ~unhandled

\* C20: the uploadMessage cookie is attached only to the success redirect of
\* /upload, never to the alert page of a rejected file or to a 500.
C20_CookieOnlyOnSuccess ==
    (IsUpload /\ pc = "done" /\ res.committed # "redirect") => ~res.cookie

----------------------------------------------------------------------------
(* Properties of the utility functions *)

Returned(kind) == pc = "returned" /\ req.kind = kind

\* s is the lower-case word w in any mix of upper and lower case
EqualsIgnoringCase(s, w) ==
    /\ Len(s) = Len(w)
    /\ \A i \in 1..Len(w) :
           \/ s[i] = w[i]
           \/ \E k \in 1..26 : LowerCase[k] = w[i] /\ UpperCase[k] = s[i]

\* the digit characters of s, in order
RECURSIVE DigitsOf(_)
DigitsOf(s) ==
    IF s = <<>> THEN <<>>
    ELSE IF Head(s) \in {"0", "1", "2", "3", "4", "5", "6", "7", "8", "9"}
         THEN <<Head(s)>> \o DigitsOf(Tail(s))
         ELSE DigitsOf(Tail(s))

E164Example == <<"+", "1">> \o Phone10

\* s starts with one of the schemes urlRegex accepts
HasAcceptedScheme(s) ==
    \E p \in {FtpPrefix, HttpPrefix, HttpsPrefix} : StartsWith(s, p)

\* C15: getMimeType maps, in any case, .png to image/png, .jpg and .jpeg to
\* image/jpeg, .pdf to application/pdf, and every other extension, the empty
\* one included, to null; .PDF gives application/pdf and .gif gives null.
C15_GetMimeTypeTable ==
    Returned("getMimeType")
        => LET e == req.arg
               png == EqualsIgnoringCase(e, <<".", "p", "n", "g">>)
               jpg == \/ EqualsIgnoringCase(e, <<".", "j", "p", "g">>)
                      \/ EqualsIgnoringCase(e, <<".", "j", "p", "e", "g">>)
               pdf == EqualsIgnoringCase(e, <<".", "p", "d", "f">>)
           IN  /\ png => ret = Str("image/png")
               /\ jpg => ret = Str("image/jpeg")
               /\ pdf => ret = Str("application/pdf")
               /\ ~(png \/ jpg \/ pdf) => ret = Null
               /\ e = <<".", "P", "D", "F">> => ret = Str("application/pdf")
               /\ e \in {<<".", "g", "i", "f">>, <<>>} => ret = Null

C15_Witness ==
    /\ Returned("getMimeType")
    /\ req.arg = <<".", "P", "D", "F">>
    /\ ret = Str("application/pdf")

\* C16: convertToE164 on a string strips the non-digits and returns + and the
\* digits for 11 digits that start with 1, +1 and the digits for 10 digits,
\* and null for every other digit count and for 11 digits not starting with 1;
\* 555-123-4567 and 15551234567 give +15551234567 and 123 gives null.
C16_ConvertToE164Cases ==
    Returned("convertToE164")
        => LET d == DigitsOf(req.arg)
               eleven == Len(d) = 11 /\ d[1] = "1"
               ten == Len(d) = 10
           IN  /\ ~ret.threw
               /\ eleven => ret.val = Str(<<"+">> \o d)
               /\ ten => ret.val = Str(<<"+", "1">> \o d)
               /\ ~(eleven \/ ten) => ret.val = Null
               /\ req.arg = <<"5", "5", "5", "-", "1", "2", "3", "-", "4", "5", "6", "7">>
                      => ret.val = Str(E164Example)
               /\ req.arg = <<"1">> \o Phone10 => ret.val = Str(E164Example)
               /\ req.arg = <<"1", "2", "3">> => ret.val = Null

C16_Witness ==
    /\ Returned("convertToE164")
    /\ req.arg = <<"2">> \o Phone10
    /\ ret.val = Null

\* C17: the normalization prepends http:// exactly when the raw value lacks a
\* scheme prefix, and returns a value that starts with ftp://, http:// or
\* https:// unchanged.
C17_NormalizeKeepsAcceptedSchemes ==
    Returned("normalizeWebsite")
        => /\ ~ret.threw
           /\ HasAcceptedScheme(req.arg) => ret.val = Str(req.arg)
           /\ ~HasAcceptedScheme(req.arg) => ret.val = Str(HttpPrefix \o req.arg)

\* C18: urlRegex accepts a string only if it starts with ftp://, http:// or
\* https:// followed by at least one character, and rejects every string that
\* holds a space or a double quote and every string with another scheme.
C18_UrlRegexRejects ==
    Returned("urlRegexTest")
        => LET a == req.arg
           IN  /\ ret = TRUE
                      => \E p \in {FtpPrefix, HttpPrefix, HttpsPrefix} :
                             /\ Len(a) > Len(p)
                             /\ SubSeq(a, 1, Len(p)) = p
               /\ (\E i \in 1..Len(a) : a[i] \in {" ", "\""}) => ret = FALSE
               /\ ~HasAcceptedScheme(a) => ret = FALSE

C18_Witness ==
    /\ Returned("urlRegexTest")
    /\ req.arg = HttpPrefix \o <<"a", " ", "b">>
    /\ ret = FALSE

----------------------------------------------------------------------------
(* Termination *)

\* the handler has run to its end
Terminal == pc = "done"

\* an HTTP response was sent: the redirect, the alert page or the 500
ResponseSent == res.committed \in {"redirect", "alert", "500"}

\* C21: when every remote call eventually returns or fails, every /upload and
\* every /register request eventually reaches a terminal state in which a
\* response (redirect, alert page or 500) has been sent.
C21_EveryRequestAnswered == (IsUpload \/ IsRegister) ~> (Terminal /\ ResponseSent)

C21_Witness ==
    /\ IsUpload
    /\ Terminal
    /\ \A i \in 1..Len(UploadOps) : Settled(UploadOps[i])
    /\ res.committed = "redirect"

====
